---------------------------- MODULE Spec2Model ----------------------------
(***************************************************************************)
(* Model of the Shiny extension's detection-and-enhancement engine:        *)
(*   SVGDetector  (src/unnamed/part_000, lines 97-403)                     *)
(*   SVGEnhancer  (src/content/svg-enhancer.js)                            *)
(*   Shiny        (src/content/content.js, the orchestrator)               *)
(*                                                                         *)
(* Three specifications share the module.  Spec is the detector over a     *)
(* live, mutating document with shadow trees and mutation observers.       *)
(* SpecEnh is the enhancer called on one graphic with any settings.        *)
(* SpecOrch is the orchestrator: detection reports and settings changes.   *)
(***************************************************************************)
EXTENDS Integers, Sequences, FiniteSets, Bags, TLC

(***************************************************************************)
(* Bounds of the model.                                                    *)
(***************************************************************************)
MaxOps == 2
MaxStarts == 2
MaxQueue == 2
MaxObs == 5
MaxCalls == 4
MaxChanges == 1

(***************************************************************************)
(* The document of the detector specification.  A fixed blueprint gives    *)
(* every element its tag and the place it goes when it is inserted; the    *)
(* state says which elements are currently attached to that place.  An     *)
(* element attached below a detached element is part of a fragment built   *)
(* off the document.  Element numbers follow document order.  A host's     *)
(* shadow root is -host; the player's is attached by its custom-element    *)
(* upgrade, which may come after the element is in the document.           *)
(*                                                                         *)
(*   0 document/body                                                       *)
(*   1   div.lottie                                                        *)
(*   2     svg                                                             *)
(*   3     div (shadow host)                                               *)
(*   4       #shadow-root > div (shadow host)                              *)
(*   5         #shadow-root > svg                                          *)
(*   6   lottie-player (shadow host)                                       *)
(*   7     #shadow-root > svg                                              *)
(*   8   svg (the page appends it in the batch specification only)         *)
(***************************************************************************)
Body == 0
ParentOf == <<0, 1, 1, 3, 4, 0, 6, 0>>
TagOf == <<"div", "svg", "div", "div", "svg", "lottie-player", "svg", "svg">>
BatchOnly == {8}
Nodes == 1..Len(ParentOf)
ShadowChildren == {4, 5, 7}
HostNodes == {3, 4, 6}
UpgradableHosts == {6}
ShadowRoots == {-h : h \in HostNodes}
LottieClassNodes == {1}
LottieDataNodes == {}
BmSvgNodes == {}
SvgNodes == {n \in Nodes : TagOf[n] = "svg"}

VARIABLES
    attached,         \* DOM: element -> attached to its blueprint parent;
                      \*      shadow root -> attached to its host
    observer,         \* SVGDetector.observer: 0 (null) or 1 (the document watcher)
    shadowObservers,  \* SVGDetector.shadowObservers: the hosts whose shadow root is a key
    detectedSVGs,     \* SVGDetector.detectedSVGs
    onSVGDetected,    \* SVGDetector.onSVGDetected is set
    obs,              \* connected MutationObservers: a bag of [kind, target, shadow, bare, queue]
    reports,          \* the calls of onSVGDetected, in order
    starts,           \* number of start() calls
    stops,            \* number of stop() calls
    startLen,         \* Len(reports) when the latest start() was entered
    firstSession,     \* elements reported before the first stop()
    ops,              \* number of DOM mutations by the page so far
    rediscovered,     \* elements registerSVG was handed when already in detectedSVGs
    failing           \* the elements on which the callback given to start() throws

detVars == <<attached, observer, shadowObservers, detectedSVGs, onSVGDetected,
             obs, reports, starts, stops, startLen, firstSession, ops,
             rediscovered, failing>>

VARIABLES
    dom,              \* DOM: element -> its attributes, inline style, classes, data-*
    enhancedElements, \* SVGEnhancer.enhancedElements: element -> record (has = is a key)
    currentSettings,  \* Shiny.settings
    access,           \* what the <object>'s nested document gives: "svg", "nosvg", "throws"
    subject,          \* the graphic the enhancer calls are about (0: all of them)
    profile,          \* the attributes the page gave the target before any call
    hist,             \* the enhancer calls so far, in order
    changes,          \* number of settings changes so far
    storedSettings,   \* chrome.storage: the record under the key 'settings'
    inbox             \* storage change events and popup messages on their way to
                      \* the content script, oldest first

enhVars == <<dom, enhancedElements, currentSettings, access, subject, profile, hist,
             changes, storedSettings, inbox>>

(***************************************************************************)
(* Generic helpers.                                                        *)
(***************************************************************************)
Min(S) == CHOOSE x \in S : \A y \in S : x <= y

RECURSIVE Sorted(_)
Sorted(S) == IF S = {} THEN <<>>
             ELSE LET m == Min(S) IN <<m>> \o Sorted(S \ {m})

Range(s) == {s[i] : i \in 1..Len(s)}

Count(s, x) == Cardinality({i \in 1..Len(s) : s[i] = x})

(***************************************************************************)
(* DOM queries.  A root is an element or the document (r >= 0), or the     *)
(* shadow root of host -r (r < 0).  querySelectorAll never crosses a       *)
(* shadow boundary.                                                        *)
(***************************************************************************)
Kids(att, r) ==
    IF r >= 0
    THEN {c \in Nodes : ParentOf[c] = r /\ c \notin ShadowChildren /\ att[c]}
    ELSE {c \in Nodes : ParentOf[c] = -r /\ c \in ShadowChildren /\ att[c]}

RECURSIVE Desc(_, _)
Desc(att, r) == UNION {{c} \cup Desc(att, c) : c \in Kids(att, r)}

Matches(n, sel) ==
    CASE sel = "*" -> TRUE
      [] sel = "svg" -> TagOf[n] = "svg"
      [] sel = "img" -> TagOf[n] = "img"
      [] sel = "object" -> TagOf[n] = "object"
      [] sel = "embed" -> TagOf[n] = "embed"
      [] sel = "player" -> TagOf[n] = "lottie-player"
      [] sel = "lottie-class" -> n \in LottieClassNodes
      [] sel = "lottie-data" -> n \in LottieDataNodes
      [] sel = "svg-bm" -> n \in BmSvgNodes
      [] OTHER -> FALSE

querySelectorAll(att, r, sel) == Sorted({n \in Desc(att, r) : Matches(n, sel)})

querySelector(att, r, sel) ==
    LET found == querySelectorAll(att, r, sel)
    IN IF found = <<>> THEN 0 ELSE found[1]

shadowRoot(att, n) == IF n \in HostNodes /\ att[-n] THEN -n ELSE 0

\* traverseShadowRoots without the recursive call on the shadow root it found
RECURSIVE traverseSeqShallow(_, _)
traverseSeqShallow(att, els) ==
    IF els = <<>> THEN <<>>
    ELSE (IF shadowRoot(att, Head(els)) # 0
          THEN <<shadowRoot(att, Head(els))>> ELSE <<>>)
         \o traverseSeqShallow(att, Tail(els))

\* the shadow roots traverseShadowRoots hands to its callback, in call order
RECURSIVE traverseSeq(_, _)
RECURSIVE traverseShadowRoots(_, _)
traverseSeq(att, els) ==
    IF els = <<>> THEN <<>>
    ELSE LET el == Head(els)
         IN (IF shadowRoot(att, el) # 0
             THEN <<shadowRoot(att, el)>> \o traverseShadowRoots(att, shadowRoot(att, el))
             ELSE <<>>) \o traverseSeq(att, Tail(els))
traverseShadowRoots(att, r) == traverseSeq(att, querySelectorAll(att, r, "*"))

RECURSIVE deepSeq(_, _, _)
deepSeq(att, roots, sel) ==
    IF roots = <<>> THEN <<>>
    ELSE querySelectorAll(att, Head(roots), sel) \o deepSeq(att, Tail(roots), sel)

querySelectorAllDeep(att, sel, r) ==
    querySelectorAll(att, r, sel) \o deepSeq(att, traverseShadowRoots(att, r), sel)

\* the element is connected to the document, through light or shadow links
RECURSIVE InDocument(_, _)
InDocument(att, n) ==
    IF n = Body THEN TRUE
    ELSE att[n] /\ InDocument(att, ParentOf[n])


(***************************************************************************)
(* SVGDetector.  The detector's fields travel through its methods as the   *)
(* record st; a method is an operator from st (and the DOM) to the new st. *)
(* st.thrown says an exception is propagating: the statements that would   *)
(* have come next in the handler are skipped, and it ends with the handler.*)
(***************************************************************************)
DetState ==
    [detected |-> detectedSVGs, reports |-> reports, obs |-> obs,
     shadowObservers |-> shadowObservers,
     observer |-> observer, cb |-> onSVGDetected, again |-> rediscovered,
     failing |-> failing, thrown |-> FALSE]

SetDetState(st) ==
    /\ detectedSVGs' = st.detected
    /\ reports' = st.reports
    /\ obs' = st.obs
    /\ shadowObservers' = st.shadowObservers
    /\ observer' = st.observer
    /\ onSVGDetected' = st.cb
    /\ rediscovered' = st.again

Info(type, element) == [type |-> type, element |-> element]

\* new MutationObserver(...) followed by observe(target, {childList, subtree})
\* shadow: the observer also observes the shadow root of its target;
\* bare: (history) the target held no inline markup when the observer was made
newObserver(st, kind, target, shadow, bare) ==
    IF st.thrown THEN st ELSE
    [st EXCEPT !.obs = @ (+) SetToBag({[kind |-> kind, target |-> target,
                                        shadow |-> shadow, bare |-> bare,
                                        queue |-> <<>>]})]

\* observer.disconnect() of observer o: pending records are dropped with it
disconnect(st, o) == [st EXCEPT !.obs = @ (-) SetToBag({o})]

\* this.onSVGDetected(svgInfo): the callback records the report, or throws
onDetected(st, svgInfo) ==
    IF svgInfo.element \in st.failing
    THEN [st EXCEPT !.thrown = TRUE]
    ELSE [st EXCEPT !.reports = Append(@, svgInfo)]

\* a bug to test the claims against: no look-up in the Seen-set
registerSVGNoDedup(st, svgInfo) ==
    LET s1 == [st EXCEPT !.detected = @ \cup {svgInfo.element}]
    IN IF st.thrown THEN st
       ELSE IF st.cb THEN onDetected(s1, svgInfo) ELSE s1

registerSVG(st, svgInfo) ==
    IF st.thrown THEN st
    ELSE IF svgInfo.element \notin st.detected
    THEN LET s1 == [st EXCEPT !.detected = @ \cup {svgInfo.element}]
         IN IF st.cb THEN onDetected(s1, svgInfo) ELSE s1
    ELSE [st EXCEPT !.again = @ \cup {svgInfo.element}]

RECURSIVE registerEach(_, _)
registerEach(st, infos) ==
    IF infos = <<>> THEN st
    ELSE registerEach(registerSVG(st, Head(infos)), Tail(infos))

Infos(type, els) == [i \in 1..Len(els) |-> Info(type, els[i])]

\* the svg a lottie container resolves to: light DOM first, then its shadow root
lottieSvg(att, container) ==
    LET svg == querySelector(att, container, "svg")
    IN IF svg = 0 /\ shadowRoot(att, container) # 0
       THEN querySelector(att, shadowRoot(att, container), "svg")
       ELSE svg

observeLottieContainer(st, att, container) ==
    newObserver(st, "lottie", container, shadowRoot(att, container) # 0,
                lottieSvg(att, container) = 0)

RECURSIVE observeEachLottie(_, _, _)
observeEachLottie(st, att, players) ==
    IF players = <<>> THEN st
    ELSE observeEachLottie(observeLottieContainer(st, att, Head(players)), att,
                           Tail(players))

observeShadowRoot(st, sr) ==
    IF st.thrown \/ -sr \in st.shadowObservers
    THEN st
    ELSE [newObserver(st, "shadow", -sr, FALSE, FALSE) EXCEPT !.shadowObservers = @ \cup {-sr}]

RECURSIVE observeEachShadowRoot(_, _)
observeEachShadowRoot(st, roots) ==
    IF roots = <<>> THEN st
    ELSE observeEachShadowRoot(observeShadowRoot(st, Head(roots)), Tail(roots))

\* checkNodeForSVG, lines 370-378: the hosts among the added node's descendants
RECURSIVE checkHosts(_, _, _)
checkHosts(st, att, els) ==
    IF els = <<>> THEN st
    ELSE LET el == Head(els)
             s1 == IF shadowRoot(att, el) # 0
                   THEN registerEach(observeShadowRoot(st, shadowRoot(att, el)),
                            Infos("inline", querySelectorAll(att, shadowRoot(att, el), "svg")))
                   ELSE st
         IN checkHosts(s1, att, Tail(els))

checkNodeForSVG(st, att, node) ==
    IF TagOf[node] = "svg"
    THEN registerSVG(st, Info("inline", node))
    ELSE IF TagOf[node] = "lottie-player"
    THEN observeLottieContainer(st, att, node)
    ELSE LET s1 == registerEach(st, Infos("inline", querySelectorAll(att, node, "svg")))
             s2 == observeEachLottie(s1, att, querySelectorAll(att, node, "player"))
             s3 == checkHosts(s2, att, querySelectorAll(att, node, "*"))
         IN IF shadowRoot(att, node) # 0
            THEN registerEach(observeShadowRoot(s3, shadowRoot(att, node)),
                     Infos("inline", querySelectorAll(att, shadowRoot(att, node), "svg")))
            ELSE s3

\* detectLottieContainers, methods 1 and 3: containers by class or data attribute
RECURSIVE containerInfos(_, _)
containerInfos(att, containers) ==
    IF containers = <<>> THEN <<>>
    ELSE LET svg == querySelector(att, Head(containers), "svg")
         IN (IF svg # 0 THEN <<Info("lottie", svg)>> ELSE <<>>)
            \o containerInfos(att, Tail(containers))

\* method 2: players; r.list the infos found, r.st the detector after the watches
RECURSIVE playerInfos(_, _, _)
playerInfos(st, att, players) ==
    IF players = <<>> THEN [list |-> <<>>, st |-> st]
    ELSE LET svg == lottieSvg(att, Head(players))
             s1 == IF svg # 0 THEN st ELSE observeLottieContainer(st, att, Head(players))
             rest == playerInfos(s1, att, Tail(players))
         IN [list |-> (IF svg # 0 THEN <<Info("lottie", svg)>> ELSE <<>>) \o rest.list,
             st |-> rest.st]

\* method 4: marked svgs not already in the list
RECURSIVE markedInfos(_, _)
markedInfos(list, svgs) ==
    IF svgs = <<>> THEN list
    ELSE markedInfos(
           IF \E i \in 1..Len(list) : list[i].element = Head(svgs)
           THEN list ELSE Append(list, Info("lottie", Head(svgs))),
           Tail(svgs))

detectLottieContainers(st, att) ==
    LET m1 == containerInfos(att, querySelectorAllDeep(att, "lottie-class", Body))
        m2 == playerInfos(st, att, querySelectorAllDeep(att, "player", Body))
        m3 == containerInfos(att, querySelectorAllDeep(att, "lottie-data", Body))
    IN [list |-> markedInfos(m1 \o m2.list \o m3,
                             querySelectorAllDeep(att, "svg-bm", Body)),
        st |-> m2.st]

detectExisting(st, att) ==
    LET lottie == detectLottieContainers(st, att)
    IN [list |-> Infos("inline", querySelectorAllDeep(att, "svg", Body))
                 \o Infos("img", querySelectorAllDeep(att, "img", Body))
                 \o Infos("object", querySelectorAllDeep(att, "object", Body))
                 \o Infos("embed", querySelectorAllDeep(att, "embed", Body))
                 \o lottie.list,
        st |-> lottie.st]

observeExistingShadowRoots(st, att) ==
    observeEachShadowRoot(st, traverseShadowRoots(att, Body))

observeDynamicContent(st, att) ==
    IF st.thrown THEN st
    ELSE observeExistingShadowRoots(
            [newObserver(st, "doc", Body, FALSE, FALSE) EXCEPT !.observer = 1], att)

\* the observer this.observer refers to: callers start an idle detector only,
\* so it is the one document watcher
DocObserver(st) ==
    CHOOSE o \in BagToSet(st.obs) : o.kind = "doc"

start(st, att) ==
    LET s0 == [st EXCEPT !.cb = TRUE]
        existing == detectExisting(s0, att)
    IN observeDynamicContent(registerEach(existing.st, existing.list), att)

\* a bug to test the claims against: stop() also empties the Seen-set
stopDiscardingSeen(st) ==
    LET s1 == IF st.observer # 0
              THEN [disconnect(st, DocObserver(st)) EXCEPT !.observer = 0]
              ELSE st
    IN [s1 EXCEPT !.shadowObservers = {}, !.detected = {}]

stop(st) ==
    LET s1 == IF st.observer # 0
              THEN [disconnect(st, DocObserver(st)) EXCEPT !.observer = 0]
              ELSE st
    IN [s1 EXCEPT !.shadowObservers = {}]


(***************************************************************************)
(* MutationObserver delivery.  Inserting or removing element n under its   *)
(* parent queues a record for every connected observer whose observed      *)
(* subtree (childList, subtree; never across a shadow boundary) holds the  *)
(* parent.  A lottie watch observes its container and, when the container  *)
(* had one as the watch began, the container's shadow root.                *)
(***************************************************************************)
Notified(att, ob, n) ==
    LET p == ParentOf[n]
    IN IF n \in ShadowChildren
       THEN \/ ob.kind = "shadow" /\ ob.target = p
            \/ ob.kind = "lottie" /\ ob.target = p /\ ob.shadow
       ELSE CASE ob.kind = "doc" -> p = Body \/ p \in Desc(att, Body)
              [] ob.kind = "shadow" -> p \in Desc(att, -ob.target)
              [] ob.kind = "lottie" ->
                    \/ p = ob.target
                    \/ p \in Desc(att, ob.target)
                    \/ ob.shadow /\ p \in Desc(att, -ob.target)

\* the observers' queues after a childList record for n; a lottie watch reads
\* no field of its records, so one pending marker stands for all of them
Queued(att, o, n, added) ==
    IF ~Notified(att, o, n) THEN o
    ELSE IF o.kind = "lottie"
         THEN [o EXCEPT !.queue = <<0>>]
         ELSE IF added THEN [o EXCEPT !.queue = Append(@, n)] ELSE o

RECURSIVE EnqueueEach(_, _, _, _, _)
EnqueueEach(att, bag, todo, n, added) ==
    IF todo = {} THEN EmptyBag
    ELSE LET o == CHOOSE x \in todo : TRUE
         IN [q \in {Queued(att, o, n, added)} |-> bag[o]]
            (+) EnqueueEach(att, bag, todo \ {o}, n, added)

Enqueue(att, bag, n, added) == EnqueueEach(att, bag, BagToSet(bag), n, added)

\* mutation.addedNodes.forEach taken from the last node to the first
RECURSIVE checkEachBackwards(_, _, _)
checkEachBackwards(st, att, added) ==
    IF added = <<>> THEN st
    ELSE checkNodeForSVG(checkEachBackwards(st, att, Tail(added)), att, Head(added))

RECURSIVE checkEach(_, _, _)
checkEach(st, att, added) ==
    IF added = <<>> THEN st
    ELSE checkEach(checkNodeForSVG(st, att, Head(added)), att, Tail(added))

\* the callback of the document watcher and of a shadow watcher
watcherCallback(st, att, o) ==
    checkEach([st EXCEPT !.obs = (@ (-) SetToBag({o}))
                                  (+) SetToBag({[o EXCEPT !.queue = <<>>]})],
              att, o.queue)

\* the callback of observeLottieContainer
lottieCallback(st, att, o) ==
    LET svg == lottieSvg(att, o.target)
        taken == [st EXCEPT !.obs = (@ (-) SetToBag({o}))
                                    (+) SetToBag({[o EXCEPT !.queue = <<>>]})]
        s1 == registerSVG(taken, Info("lottie", svg))
    IN IF svg = 0 THEN taken
       ELSE IF s1.thrown THEN s1
       ELSE disconnect(s1, [o EXCEPT !.queue = <<>>])

(***************************************************************************)
(* The detector specification.                                             *)
(***************************************************************************)
\* new SVGDetector()
DetConstructed ==
    /\ observer = 0
    /\ shadowObservers = {}
    /\ detectedSVGs = {}
    /\ onSVGDetected = FALSE
    /\ obs = EmptyBag
    /\ reports = <<>>
    /\ starts = 0
    /\ stops = 0
    /\ startLen = 0
    /\ firstSession = {}
    /\ ops = 0
    /\ rediscovered = {}

\* the documents the detector may be started on: a shadow root is there unless
\* its host is a player not yet upgraded, nothing hangs in a missing root, and a
\* subtree built off the document is whole (Remove takes subtrees apart)
Documents ==
    {att \in [Nodes \cup ShadowRoots -> BOOLEAN] :
        /\ \A h \in HostNodes \ UpgradableHosts : att[-h]
        /\ \A c \in ShadowChildren : att[c] => att[-ParentOf[c]]
        /\ \A n \in Nodes : InDocument(att, n) \/ InDocument(att, ParentOf[n])
                              \/ att[n]
        /\ \A h \in UpgradableHosts : InDocument(att, h) \/ att[-h]
        /\ \A n \in BatchOnly : ~att[n]}

AllAttached == [n \in Nodes \cup ShadowRoots |-> TRUE]

\* a timer task runs only when every queued observer callback has run
Drained(bag) == \A o \in BagToSet(bag) : o.queue = <<>>

\* the callback the detector is started with here records and never throws
DetInit ==
    /\ attached \in Documents
    /\ DetConstructed
    /\ failing = {}

Start ==
    /\ starts < MaxStarts
    /\ observer = 0
    /\ LET st == start(DetState, attached)
       IN /\ BagCardinality(st.obs) <= MaxObs
          /\ SetDetState(st)
    /\ starts' = starts + 1
    /\ startLen' = Len(reports)
    /\ UNCHANGED <<attached, stops, firstSession, ops, failing>>
    /\ UNCHANGED enhVars

Stop ==
    /\ observer # 0
    /\ SetDetState(stop(DetState))
    /\ stops' = stops + 1
    /\ firstSession' = IF stops = 0
                       THEN {reports[i].element : i \in 1..Len(reports)}
                       ELSE firstSession
    /\ UNCHANGED <<attached, starts, startLen, ops, failing>>
    /\ UNCHANGED enhVars

\* the page changes the document; what it did before the first start() is part
\* of the initial document
Insert(n) ==
    /\ starts > 0
    /\ ops < MaxOps
    /\ ~attached[n]
    /\ n \in ShadowChildren => attached[-ParentOf[n]]
    /\ \A o \in BagToSet(obs) :
          Notified(attached, o, n) => Len(o.queue) < MaxQueue
    /\ attached' = [attached EXCEPT ![n] = TRUE]
    /\ obs' = Enqueue(attached, obs, n, TRUE)
    /\ ops' = ops + 1
    /\ UNCHANGED <<observer, shadowObservers, detectedSVGs, onSVGDetected,
                   reports, starts, stops, startLen, firstSession, rediscovered,
                   failing>>
    /\ UNCHANGED enhVars

Remove(n) ==
    /\ starts > 0
    /\ ops < MaxOps
    /\ attached[n]
    /\ attached' = [attached EXCEPT ![n] = FALSE]
    /\ obs' = Enqueue(attached, obs, n, FALSE)
    /\ ops' = ops + 1
    /\ UNCHANGED <<observer, shadowObservers, detectedSVGs, onSVGDetected,
                   reports, starts, stops, startLen, firstSession, rediscovered,
                   failing>>
    /\ UNCHANGED enhVars

Deliver(o) ==
    /\ o.queue # <<>>
    /\ LET st == IF o.kind = "lottie"
                 THEN lottieCallback(DetState, attached, o)
                 ELSE watcherCallback(DetState, attached, o)
       IN /\ BagCardinality(st.obs) <= MaxObs
          /\ SetDetState(st)
    /\ UNCHANGED <<attached, starts, stops, startLen, firstSession, ops, failing>>
    /\ UNCHANGED enhVars

\* the player's upgrade: this.attachShadow(...); no mutation record is queued
AttachShadow(h) ==
    /\ starts > 0
    /\ ops < MaxOps
    /\ h \in UpgradableHosts
    /\ ~attached[-h]
    /\ attached' = [attached EXCEPT ![-h] = TRUE]
    /\ ops' = ops + 1
    /\ UNCHANGED <<observer, shadowObservers, detectedSVGs, onSVGDetected, obs,
                   reports, starts, stops, startLen, firstSession, rediscovered,
                   failing>>
    /\ UNCHANGED enhVars

\* setTimeout(() => lottieObserver.disconnect(), 10000)
LottieTimeout(o) ==
    /\ o.kind = "lottie"
    /\ Drained(obs)
    /\ SetDetState(disconnect(DetState, o))
    /\ UNCHANGED <<attached, starts, stops, startLen, firstSession, ops, failing>>
    /\ UNCHANGED enhVars

DetNext ==
    \/ Start
    \/ Stop
    \/ \E n \in Nodes \ BatchOnly : Insert(n)
    \/ \E n \in Nodes : Remove(n)
    \/ \E h \in HostNodes : AttachShadow(h)
    \/ \E o \in BagToSet(obs) : Deliver(o)
    \/ \E o \in BagToSet(obs) : LottieTimeout(o)


(***************************************************************************)
(* The graphics of the enhancer and orchestrator specifications.  Element  *)
(* numbers follow document order.                                          *)
(*                                                                         *)
(*   11 <svg>                 inline graphic in the light document         *)
(*   12   <path>              a shape                                      *)
(*   13   <defs><path>        a shape inside a definitions subtree         *)
(*   14   <a> or <g>          an element that may be interactive           *)
(*   15 <svg>                 inline graphic inside a shadow tree          *)
(*   16   <path>                                                           *)
(*   17 <img src="x.svg">     raster-referenced graphic                    *)
(*   18 <object>              plugin-embedded graphic                      *)
(*   19 <svg>                 root of the object's nested document         *)
(*   20   <path>                                                           *)
(***************************************************************************)
ENodes == 11..20
ESvgRoots == {11, 15, 19}
EShapes == {12, 13, 16, 20}
InDefs == {13}
LightDocument == {11, 12, 13, 14, 17, 18}
ERootOf(n) ==
    CASE n \in {12, 13, 14} -> 11
      [] n = 16 -> 15
      [] n = 20 -> 19
      [] OTHER -> 0
NestedRoot(n) == IF n = 18 THEN 19 ELSE 0

Graphic(g) ==
    CASE g = 1 -> Info("inline", 11)
      [] g = 2 -> Info("inline", 15)
      [] g = 3 -> Info("img", 17)
      [] g = 4 -> Info("object", 18)
Graphics == 1..4

\* JavaScript values: Null is null/undefined, "" is the empty string
Null == "<null>"
Truthy(v) == v # Null /\ v # ""
OrEmpty(v) == IF Truthy(v) THEN v ELSE ""

BaseNode(tag) ==
    [tag |-> tag, stroke |-> Null, strokeWidth |-> Null, fill |-> Null,
     paintOrder |-> "", filter |-> "", classes |-> {}, tabindex |-> Null,
     onclick |-> FALSE, role |-> Null, cursorPointer |-> FALSE,
     origStroke |-> Null, origStrokeWidth |-> Null, origPaintOrder |-> Null,
     addedTabindex |-> Null, highlightColor |-> Null]

NoRecord == [has |-> FALSE, originalFilter |-> "", modifiedShapes |-> <<>>]

(***************************************************************************)
(* ShinyStorage.defaultSettings and the settings snapshots the model draws *)
(* from: the defaults, and the defaults with one or two features changed.  *)
(***************************************************************************)
defaultSettings ==
    [enabled |-> TRUE,
     outlineEnabled |-> TRUE, outlineColor |-> "#000000", outlineWidth |-> 2,
     contrastEnabled |-> TRUE, contrastLevel |-> "high",
     highlightEnabled |-> TRUE, highlightColor |-> "#FFFF00",
     focusIndicators |-> TRUE,
     imageHdrEnabled |-> FALSE, imageHdrIntensity |-> "medium"]

SettingsSet ==
    {defaultSettings,
     [defaultSettings EXCEPT !.enabled = FALSE],
     [defaultSettings EXCEPT !.outlineEnabled = FALSE],
     [defaultSettings EXCEPT !.outlineColor = "#00F", !.outlineWidth = 3,
                             !.contrastLevel = "medium"],
     [defaultSettings EXCEPT !.contrastEnabled = FALSE, !.highlightEnabled = FALSE],
     [defaultSettings EXCEPT !.contrastLevel = "maximum", !.outlineEnabled = FALSE],
     [defaultSettings EXCEPT !.contrastLevel = "extreme"],
     [defaultSettings EXCEPT !.focusIndicators = FALSE],
     [defaultSettings EXCEPT !.outlineEnabled = FALSE, !.contrastEnabled = FALSE,
                             !.highlightEnabled = FALSE, !.focusIndicators = FALSE]}

(***************************************************************************)
(* SVGEnhancer.  The DOM attributes and the enhancedElements map travel    *)
(* through the methods as the record es = [dom, store].                    *)
(***************************************************************************)
\* svg.querySelectorAll(...): the matching descendants of root, in document order
Within(root) == {n \in ENodes : ERootOf(n) = root}

IsShape(es, n) == n \in EShapes

\* shape.closest('clipPath') || shape.closest('mask') || shape.closest('defs')
Skipped(n) == n \in InDefs

addClass(es, n, c) == [es EXCEPT !.dom[n].classes = @ \cup {c}]
removeClass(es, n, c) == [es EXCEPT !.dom[n].classes = @ \ {c}]

\* addOutlines, lines 92-117, for one shape of svg
outlineShape(es, svg, settings, shape) ==
    IF Skipped(shape) THEN es
    ELSE LET d == es.dom[shape]
             s1 == IF ~Truthy(d.origStroke)
                   THEN [es EXCEPT
                           !.dom[shape].origStroke = OrEmpty(d.stroke),
                           !.dom[shape].origStrokeWidth = OrEmpty(d.strokeWidth),
                           !.dom[shape].origPaintOrder = OrEmpty(d.paintOrder),
                           !.store[svg].modifiedShapes = Append(@, shape)]
                   ELSE es
             s2 == [s1 EXCEPT !.dom[shape].stroke = settings.outlineColor,
                              !.dom[shape].strokeWidth = ToString(settings.outlineWidth)]
             s3 == IF Truthy(d.fill) /\ d.fill # "none" /\ d.fill # "transparent"
                   THEN [s2 EXCEPT !.dom[shape].paintOrder = "stroke fill"]
                   ELSE s2
         IN addClass(s3, shape, "shiny-outlined")

RECURSIVE outlineEach(_, _, _, _)
outlineEach(es, svg, settings, shapes) ==
    IF shapes = <<>> THEN es
    ELSE outlineEach(outlineShape(es, svg, settings, Head(shapes)), svg, settings,
                     Tail(shapes))

addOutlines(es, svg, settings) ==
    outlineEach(es, svg, settings, Sorted({n \in Within(svg) : IsShape(es, n)}))

\* removeOutlines, lines 126-145, for one entry of stored.modifiedShapes
restoreShape(es, shape) ==
    LET d == es.dom[shape]
        s1 == [es EXCEPT
                 !.dom[shape].stroke =
                     IF Truthy(d.origStroke) THEN d.origStroke ELSE Null,
                 !.dom[shape].strokeWidth =
                     IF Truthy(d.origStrokeWidth) THEN d.origStrokeWidth ELSE Null,
                 !.dom[shape].paintOrder = OrEmpty(d.origPaintOrder)]
    IN removeClass(s1, shape, "shiny-outlined")

RECURSIVE restoreEach(_, _)
restoreEach(es, shapes) ==
    IF shapes = <<>> THEN es
    ELSE restoreEach(restoreShape(es, Head(shapes)), Tail(shapes))

removeOutlines(es, svg, stored) == restoreEach(es, stored.modifiedShapes)

contrastFilters(level) ==
    CASE level = "medium" -> "contrast(1.3) saturate(1.2)"
      [] level = "high" -> "contrast(1.6) saturate(1.4)"
      [] level = "maximum" -> "contrast(2.0) saturate(1.6)"
      [] OTHER -> Null

\* enhanceContrast combining with the filter now on the root instead of the
\* recorded one
enhanceContrastOnCurrent(es, svg, settings) ==
    LET existingFilter == es.dom[svg].filter
        found == contrastFilters(settings.contrastLevel)
        contrastFilter == IF Truthy(found) THEN found ELSE contrastFilters("high")
    IN [es EXCEPT !.dom[svg].filter =
            IF Truthy(existingFilter)
            THEN existingFilter \o " " \o contrastFilter
            ELSE contrastFilter]

enhanceContrast(es, svg, settings) ==
    LET existingFilter == IF es.store[svg].has
                          THEN OrEmpty(es.store[svg].originalFilter) ELSE ""
        found == contrastFilters(settings.contrastLevel)
        contrastFilter == IF Truthy(found) THEN found ELSE contrastFilters("high")
    IN [es EXCEPT !.dom[svg].filter =
            IF Truthy(existingFilter)
            THEN existingFilter \o " " \o contrastFilter
            ELSE contrastFilter]

\* '[onclick], [tabindex], a, [role="button"], [role="link"], [cursor="pointer"]'
\* (no element of these pages carries a cursor attribute)
Interactive(d) ==
    \/ d.onclick
    \/ d.tabindex # Null
    \/ d.tag = "a"
    \/ d.role \in {"button", "link"}

highlight(es, n, settings) ==
    [addClass(es, n, "shiny-highlightable")
        EXCEPT !.dom[n].highlightColor = settings.highlightColor]

RECURSIVE highlightEach(_, _, _)
highlightEach(es, els, settings) ==
    IF els = <<>> THEN es
    ELSE highlightEach(highlight(es, Head(els), settings), Tail(els), settings)

\* lines 184-194: getComputedStyle(el).cursor === 'pointer' and not yet marked
RECURSIVE highlightPointers(_, _, _)
highlightPointers(es, els, settings) ==
    IF els = <<>> THEN es
    ELSE LET el == Head(els)
             s1 == IF es.dom[el].cursorPointer
                      /\ "shiny-highlightable" \notin es.dom[el].classes
                   THEN highlight(es, el, settings) ELSE es
         IN highlightPointers(s1, Tail(els), settings)

addHighlighting(es, svg, settings) ==
    highlightPointers(
        highlightEach(es, Sorted({n \in Within(svg) : Interactive(es.dom[n])}), settings),
        Sorted(Within(svg)), settings)

RECURSIVE unhighlightEach(_, _)
unhighlightEach(es, els) ==
    IF els = <<>> THEN es
    ELSE unhighlightEach(
            [removeClass(es, Head(els), "shiny-highlightable")
                EXCEPT !.dom[Head(els)].highlightColor = Null],
            Tail(els))

removeHighlighting(es, svg) ==
    unhighlightEach(es,
        Sorted({n \in Within(svg) : "shiny-highlightable" \in es.dom[n].classes}))

\* 'a, [tabindex]:not([tabindex="-1"]), [onclick], [role="button"], [role="link"]'
Focusable(d) ==
    \/ d.tag = "a"
    \/ (d.tabindex # Null /\ d.tabindex # "-1")
    \/ d.onclick
    \/ d.role \in {"button", "link"}

RECURSIVE focusEach(_, _)
focusEach(es, els) ==
    IF els = <<>> THEN es
    ELSE LET el == Head(els)
             d == es.dom[el]
             s1 == addClass(es, el, "shiny-focusable")
             s2 == IF d.tabindex = Null /\ (d.onclick \/ Truthy(d.role))
                   THEN [s1 EXCEPT !.dom[el].tabindex = "0",
                                   !.dom[el].addedTabindex = "true"]
                   ELSE s1
         IN focusEach(s2, Tail(els))

addFocusIndicators(es, svg) ==
    focusEach(es, Sorted({n \in Within(svg) : Focusable(es.dom[n])}))

\* removeFocusIndicators taking the tab index off every marked element
RECURSIVE unfocusEachAll(_, _)
unfocusEachAll(es, els) ==
    IF els = <<>> THEN es
    ELSE LET el == Head(els)
             s1 == removeClass(es, el, "shiny-focusable")
         IN unfocusEachAll([s1 EXCEPT !.dom[el].tabindex = Null,
                                      !.dom[el].addedTabindex = Null],
                           Tail(els))

RECURSIVE unfocusEach(_, _)
unfocusEach(es, els) ==
    IF els = <<>> THEN es
    ELSE LET el == Head(els)
             s1 == removeClass(es, el, "shiny-focusable")
             s2 == IF Truthy(es.dom[el].addedTabindex)
                   THEN [s1 EXCEPT !.dom[el].tabindex = Null,
                                   !.dom[el].addedTabindex = Null]
                   ELSE s1
         IN unfocusEach(s2, Tail(els))

removeFocusIndicators(es, svg) ==
    unfocusEach(es,
        Sorted({n \in Within(svg) : "shiny-focusable" \in es.dom[n].classes}))

enhanceInlineSVG(es, svg, settings) ==
    LET s0 == IF ~es.store[svg].has
              THEN [es EXCEPT !.store[svg] =
                        [has |-> TRUE, originalFilter |-> es.dom[svg].filter,
                         modifiedShapes |-> <<>>]]
              ELSE es
        s1 == IF settings.outlineEnabled
              THEN addOutlines(s0, svg, settings)
              ELSE removeOutlines(s0, svg, s0.store[svg])
        s2 == IF settings.contrastEnabled
              THEN enhanceContrast(s1, svg, settings)
              ELSE [s1 EXCEPT !.dom[svg].filter = OrEmpty(s1.store[svg].originalFilter)]
        s3 == IF settings.highlightEnabled
              THEN addHighlighting(s2, svg, settings)
              ELSE removeHighlighting(s2, svg)
        s4 == IF settings.focusIndicators
              THEN addFocusIndicators(s3, svg)
              ELSE removeFocusIndicators(s3, svg)
    IN addClass(s4, svg, "shiny-enhanced")

contrastValues(level) ==
    CASE level = "medium" -> "1.3"
      [] level = "high" -> "1.6"
      [] level = "maximum" -> "2"
      [] OTHER -> Null

\* filters.join(' ')
RECURSIVE Join(_)
Join(parts) ==
    IF parts = <<>> THEN ""
    ELSE IF Len(parts) = 1 THEN parts[1]
    ELSE parts[1] \o " " \o Join(Tail(parts))

\* enhanceImgSVG with the new terms appended to the filter already there
enhanceImgSVGAppending(es, img, settings) ==
    LET s0 == IF ~es.store[img].has
              THEN [es EXCEPT !.store[img] =
                        [has |-> TRUE, originalFilter |-> es.dom[img].filter,
                         modifiedShapes |-> <<>>]]
              ELSE es
        found == contrastValues(settings.contrastLevel)
        contrast == IF Truthy(found) THEN found ELSE "1.6"
        f0 == IF es.dom[img].filter = "" THEN <<>> ELSE <<es.dom[img].filter>>
        f1 == IF settings.contrastEnabled
              THEN <<"contrast(" \o contrast \o ")">> ELSE <<>>
        f2 == IF settings.outlineEnabled
              THEN <<"drop-shadow(0 0 " \o ToString(settings.outlineWidth) \o "px "
                     \o settings.outlineColor \o ")">>
              ELSE <<>>
    IN addClass([s0 EXCEPT !.dom[img].filter = Join(f0 \o f1 \o f2)], img,
                "shiny-enhanced-img")

enhanceImgSVG(es, img, settings) ==
    LET s0 == IF ~es.store[img].has
              THEN [es EXCEPT !.store[img] =
                        [has |-> TRUE, originalFilter |-> es.dom[img].filter,
                         modifiedShapes |-> <<>>]]
              ELSE es
        found == contrastValues(settings.contrastLevel)
        contrast == IF Truthy(found) THEN found ELSE "1.6"
        f1 == IF settings.contrastEnabled
              THEN <<"contrast(" \o contrast \o ")">> ELSE <<>>
        f2 == IF settings.outlineEnabled
              THEN <<"drop-shadow(0 0 " \o ToString(settings.outlineWidth) \o "px "
                     \o settings.outlineColor \o ")">>
              ELSE <<>>
    IN addClass([s0 EXCEPT !.dom[img].filter = Join(f1 \o f2)], img,
                "shiny-enhanced-img")

\* enhanceEmbeddedSVG without the try/catch: the failed access leaves the call
\* unfinished
enhanceEmbeddedSVGUncaught(es, element, settings, acc) ==
    IF acc = "throws" THEN es
    ELSE IF acc = "svg" /\ NestedRoot(element) # 0
    THEN enhanceInlineSVG(es, NestedRoot(element), settings)
    ELSE enhanceImgSVG(es, element, settings)

\* acc is what reaching into the nested document gives: "svg" (its svg root),
\* "nosvg" (no document, or none with an svg) or "throws" (access denied)
enhanceEmbeddedSVG(es, element, settings, acc) ==
    IF acc = "svg" /\ NestedRoot(element) # 0
    THEN enhanceInlineSVG(es, NestedRoot(element), settings)
    ELSE enhanceImgSVG(es, element, settings)

\* restore without the early return: a missing record read as an empty one
restoreUnguarded(es, element) ==
    LET stored == es.store[element]
        s1 == [es EXCEPT !.dom[element].filter = OrEmpty(stored.originalFilter)]
        s2 == IF es.dom[element].tag = "svg"
              THEN removeClass(
                     removeFocusIndicators(
                       removeHighlighting(
                         removeOutlines(s1, element, stored), element),
                       element),
                     element, "shiny-enhanced")
              ELSE removeClass(s1, element, "shiny-enhanced-img")
    IN [s2 EXCEPT !.store[element] = NoRecord]

\* restore without the final enhancedElements.delete(element)
restoreKeepingRecord(es, element) ==
    LET stored == es.store[element]
    IN IF ~stored.has THEN es
       ELSE LET s1 == [es EXCEPT !.dom[element].filter = OrEmpty(stored.originalFilter)]
            IN IF es.dom[element].tag = "svg"
               THEN removeClass(
                      removeFocusIndicators(
                        removeHighlighting(
                          removeOutlines(s1, element, stored), element),
                        element),
                      element, "shiny-enhanced")
               ELSE removeClass(s1, element, "shiny-enhanced-img")

restore(es, element) ==
    LET stored == es.store[element]
    IN IF ~stored.has THEN es
       ELSE LET s1 == [es EXCEPT !.dom[element].filter = OrEmpty(stored.originalFilter)]
                s2 == IF es.dom[element].tag = "svg"
                      THEN removeClass(
                             removeFocusIndicators(
                               removeHighlighting(
                                 removeOutlines(s1, element, stored), element),
                               element),
                             element, "shiny-enhanced")
                      ELSE removeClass(s1, element, "shiny-enhanced-img")
            IN [s2 EXCEPT !.store[element] = NoRecord]

enhance(es, svgInfo, settings, acc) ==
    IF ~settings.enabled
    THEN restore(es, svgInfo.element)
    ELSE CASE svgInfo.type \in {"inline", "lottie"} ->
                 enhanceInlineSVG(es, svgInfo.element, settings)
           [] svgInfo.type = "img" ->
                 enhanceImgSVG(es, svgInfo.element, settings)
           [] svgInfo.type \in {"object", "embed"} ->
                 enhanceEmbeddedSVG(es, svgInfo.element, settings, acc)
           [] OTHER -> es

RECURSIVE restoreNodes(_, _)
restoreNodes(es, els) ==
    IF els = <<>> THEN es
    ELSE restoreNodes(restore(es, Head(els)), Tail(els))

\* document.querySelectorAll('.shiny-enhanced, .shiny-enhanced-img')
restoreAll(es) ==
    restoreNodes(es,
        Sorted({n \in LightDocument :
                  es.dom[n].classes \cap {"shiny-enhanced", "shiny-enhanced-img"} # {}}))


(***************************************************************************)
(* The pages the enhancer is run on.  A profile fixes what the page wrote  *)
(* on the target graphic before the extension touched it: the stroke       *)
(* attributes of its shape, the kind of its possibly-interactive element   *)
(* and its inline filter.  Profiles vary one of the three at a time.       *)
(***************************************************************************)
DefaultShape == [stroke |-> Null, strokeWidth |-> Null, fill |-> "red", paintOrder |-> ""]
DefaultEl == [tag |-> "g", tabindex |-> Null, onclick |-> FALSE, role |-> "button",
              cursorPointer |-> FALSE]
DefaultProfile == [shape |-> DefaultShape, el |-> DefaultEl, filter |-> ""]

ShapeProfiles ==
    {[DefaultShape EXCEPT !.stroke = ""],
     [DefaultShape EXCEPT !.stroke = "red"],
     [DefaultShape EXCEPT !.stroke = "red", !.strokeWidth = "1"],
     [DefaultShape EXCEPT !.fill = "none"],
     [DefaultShape EXCEPT !.stroke = "red", !.paintOrder = "markers"]}

ElProfiles ==
    {[DefaultEl EXCEPT !.tabindex = "0"],
     [DefaultEl EXCEPT !.tabindex = "-1"],
     [DefaultEl EXCEPT !.role = "img"],
     [DefaultEl EXCEPT !.role = Null],
     [DefaultEl EXCEPT !.role = Null, !.tabindex = "0"],
     [DefaultEl EXCEPT !.role = Null, !.onclick = TRUE],
     [DefaultEl EXCEPT !.role = Null, !.cursorPointer = TRUE],
     [DefaultEl EXCEPT !.role = Null, !.tag = "a"],
     [DefaultEl EXCEPT !.role = Null, !.tag = "a", !.tabindex = "-1"]}

FilterProfiles == {"blur(1px)"}

Profiles(t) ==
    {DefaultProfile}
    \cup {[DefaultProfile EXCEPT !.filter = f] : f \in FilterProfiles}
    \cup (IF t \in {1, 2}
          THEN {[DefaultProfile EXCEPT !.shape = sh] : sh \in ShapeProfiles} ELSE {})
    \cup (IF t = 4
          THEN {[DefaultProfile EXCEPT !.shape.stroke = "red"]} ELSE {})
    \cup (IF t \in {1, 2}
          THEN {[DefaultProfile EXCEPT !.el = e] : e \in ElProfiles} ELSE {})

\* the svg root whose subtree belongs to graphic t
TargetRoot(t) ==
    CASE t = 1 -> 11
      [] t = 2 -> 15
      [] t = 4 -> 19
      [] OTHER -> 0

TargetElement(t) == IF t \in Graphics THEN Graphic(t).element ELSE 0

InitialDom(t, p) ==
    [n \in ENodes |->
        LET mine == t = 0 \/ ERootOf(n) = TargetRoot(t) \/ n = TargetRoot(t)
                          \/ n = TargetElement(t)
            sh == IF mine /\ n \notin InDefs THEN p.shape ELSE DefaultShape
            el == IF mine THEN p.el ELSE DefaultEl
        IN CASE n \in ESvgRoots ->
                  [BaseNode("svg") EXCEPT !.filter = IF mine THEN p.filter ELSE ""]
             [] n \in EShapes ->
                  [BaseNode("path") EXCEPT !.stroke = sh.stroke,
                                           !.strokeWidth = sh.strokeWidth,
                                           !.fill = sh.fill,
                                           !.paintOrder = sh.paintOrder]
             [] n = 14 ->
                  [BaseNode(el.tag) EXCEPT !.tabindex = el.tabindex,
                                           !.onclick = el.onclick,
                                           !.role = el.role,
                                           !.cursorPointer = el.cursorPointer]
             [] n = 17 ->
                  [BaseNode("img") EXCEPT !.filter = IF mine THEN p.filter ELSE ""]
             [] OTHER ->
                  [BaseNode("object") EXCEPT !.filter = IF mine THEN p.filter ELSE ""]]

EnhState == [dom |-> dom, store |-> enhancedElements]

SetEnhState(es) ==
    /\ dom' = es.dom
    /\ enhancedElements' = es.store

\* chrome.storage holds no 'settings' record
NothingStored == [f \in {} |-> TRUE]

\* the specifications that leave the storage alone
StorageIdle ==
    /\ storedSettings = NothingStored
    /\ inbox = <<>>

\* new SVGEnhancer(): the store is empty
EnhConstructed ==
    /\ enhancedElements = [n \in ENodes |-> NoRecord]
    /\ hist = <<>>
    /\ changes = 0

\* the detector specification has no graphics to enhance: the enhancer's
\* variables stay empty there
EnhIdle ==
    /\ dom = <<>>
    /\ enhancedElements = <<>>
    /\ hist = <<>>
    /\ changes = 0
    /\ subject = 0
    /\ profile = <<>>
    /\ access = "svg"
    /\ currentSettings = <<>>
    /\ StorageIdle

(***************************************************************************)
(* The enhancer on its own: a caller applies enhance, restore and          *)
(* restoreAll to one target graphic, in any order, with any settings.      *)
(***************************************************************************)
Targets == {1, 3, 4}

EnhInit ==
    /\ attached = AllAttached
    /\ DetConstructed
    /\ failing = {}
    /\ EnhConstructed
    /\ subject \in Targets
    /\ profile \in Profiles(subject)
    /\ dom = InitialDom(subject, profile)
    /\ access \in (IF subject = 4 THEN {"svg", "nosvg", "throws"} ELSE {"svg"})
    /\ currentSettings = defaultSettings
    /\ StorageIdle

\* the entries of hist: "E" is enhance with enabled settings and outlines on, "e"
\* with enabled settings and outlines off, "R" is restore of the primary node, and
\* "x" any other call (enhance with disabled settings, restore of the nested root,
\* restoreAll)
Code(s) == IF ~s.enabled THEN "x" ELSE IF s.outlineEnabled THEN "E" ELSE "e"

Enhance(s) ==
    /\ Len(hist) < MaxCalls
    /\ SetEnhState(enhance(EnhState, Graphic(subject), s, access))
    /\ hist' = Append(hist, Code(s))
    /\ currentSettings' = s
    /\ UNCHANGED <<access, subject, profile, changes, storedSettings, inbox>>
    /\ UNCHANGED detVars

\* restore(n) for the graphic's primary node or, for the <object>, the root of its
\* nested document
Restore(n) ==
    /\ Len(hist) < MaxCalls
    /\ n \in {TargetElement(subject), TargetRoot(subject)}
    /\ SetEnhState(restore(EnhState, n))
    /\ hist' = Append(hist, IF n = TargetElement(subject) THEN "R" ELSE "x")
    /\ UNCHANGED <<currentSettings, access, subject, profile, changes, storedSettings, inbox>>
    /\ UNCHANGED detVars

RestoreAll ==
    /\ Len(hist) < MaxCalls
    /\ SetEnhState(restoreAll(EnhState))
    /\ hist' = Append(hist, "x")
    /\ UNCHANGED <<currentSettings, access, subject, profile, changes, storedSettings, inbox>>
    /\ UNCHANGED detVars

\* the <object>'s nested document loads, unloads or moves to another origin
Navigate(a) ==
    /\ subject = 4
    /\ changes < MaxChanges
    /\ access # a
    /\ access' = a
    /\ changes' = changes + 1
    /\ UNCHANGED <<dom, enhancedElements, currentSettings, subject, profile, hist, storedSettings, inbox>>
    /\ UNCHANGED detVars

EnhNext ==
    \/ \E s \in SettingsSet : Enhance(s)
    \/ \E n \in ENodes : Restore(n)
    \/ RestoreAll
    \/ \E a \in {"svg", "nosvg", "throws"} : Navigate(a)

(***************************************************************************)
(* The orchestrator (content.js): after init() the detector reports the    *)
(* page's four graphics in any order, each once, and the settings change.  *)
(***************************************************************************)
\* onSVGDetected working from the snapshot of load time instead of this.settings
ShinyOnSVGDetectedStale(es, svgInfo, s, acc) ==
    IF defaultSettings.enabled THEN enhance(es, svgInfo, defaultSettings, acc) ELSE es

ShinyOnSVGDetected(es, svgInfo, s, acc) ==
    IF s.enabled THEN enhance(es, svgInfo, s, acc) ELSE es

RECURSIVE enhanceAll(_, _, _, _, _)
enhanceAll(es, type, els, s, acc) ==
    IF els = <<>> THEN es
    ELSE enhanceAll(enhance(es, Info(type, Head(els)), s, acc), type, Tail(els), s, acc)

\* document.querySelectorAll: the light document only
reenhanceAll(es, s, acc) ==
    LET s1 == enhanceAll(es, "inline",
                  Sorted({n \in LightDocument : es.dom[n].tag = "svg"}), s, acc)
        s2 == enhanceAll(s1, "img",
                  Sorted({n \in LightDocument : es.dom[n].tag = "img"}), s, acc)
    IN enhanceAll(s2, "object",
                  Sorted({n \in LightDocument : es.dom[n].tag = "object"}), s, acc)

onSettingsChanged(es, old, newSettings, acc) ==
    IF ~newSettings.enabled /\ old.enabled THEN restoreAll(es)
    ELSE IF newSettings.enabled THEN reenhanceAll(es, newSettings, acc)
    ELSE es

OrchInit ==
    /\ attached = AllAttached
    /\ observer = 0
    /\ shadowObservers = {}
    /\ detectedSVGs = {}
    /\ onSVGDetected = TRUE
    /\ obs = EmptyBag
    /\ reports = <<>>
    /\ starts = 1
    /\ stops = 0
    /\ startLen = 0
    /\ firstSession = {}
    /\ ops = 0
    /\ rediscovered = {}
    /\ failing = {}
    /\ EnhConstructed
    /\ subject = 0
    /\ profile \in {DefaultProfile,
                    [DefaultProfile EXCEPT !.shape.stroke = "red", !.filter = "blur(1px)"]}
    /\ dom = InitialDom(0, profile)
    /\ access \in {"svg", "nosvg", "throws"}
    /\ currentSettings \in SettingsSet
    /\ StorageIdle

\* the detector reports graphic g: registerSVG, then Shiny.onSVGDetected
Detect(g) ==
    /\ Graphic(g).element \notin detectedSVGs
    /\ SetDetState(registerSVG(DetState, Graphic(g)))
    /\ SetEnhState(ShinyOnSVGDetected(EnhState, Graphic(g), currentSettings, access))
    /\ UNCHANGED <<attached, starts, stops, startLen, firstSession, ops, failing>>
    /\ UNCHANGED <<currentSettings, access, subject, profile, hist, changes, storedSettings, inbox>>

SettingsChanged(s) ==
    /\ changes < MaxChanges
    /\ currentSettings' = s
    /\ SetEnhState(onSettingsChanged(EnhState, currentSettings, s, access))
    /\ changes' = changes + 1
    /\ UNCHANGED <<access, subject, profile, hist, storedSettings, inbox>>
    /\ UNCHANGED detVars

OrchNext ==
    \/ \E g \in Graphics : Detect(g)
    \/ \E s \in SettingsSet : SettingsChanged(s)

(***************************************************************************)
(* The settings on their way to the orchestrator: ShinyStorage, the        *)
(* writers of the stored record (the install handler and the popup) and    *)
(* the content script's init() and onSettingsChanged, on a page without    *)
(* graphics.                                                               *)
(***************************************************************************)
\* ShinyStorage.get: { ...this.defaultSettings, ...result.settings }
get(result) ==
    [f \in DOMAIN defaultSettings \cup DOMAIN result |->
        IF f \in DOMAIN result THEN result[f] ELSE defaultSettings[f]]

\* the record the install handler writes: nine fields, none of the imageHdr ones
installSettings ==
    [f \in DOMAIN defaultSettings \ {"imageHdrEnabled", "imageHdrIntensity"} |->
        defaultSettings[f]]

\* a page with no graphic connected to the document
PlainPage == [AllAttached EXCEPT ![1] = FALSE, ![6] = FALSE, ![8] = FALSE]

\* chrome.storage.onChanged reaches the listener ShinyStorage.onChange registered:
\* the callback is handed changes.settings.newValue
onChange(box, listening, old, newValue) ==
    IF listening /\ newValue # old THEN Append(box, newValue) ELSE box

StoreInit ==
    /\ attached = PlainPage
    /\ DetConstructed
    /\ failing = {}
    /\ EnhConstructed
    /\ dom = <<>>
    /\ subject = 0
    /\ profile = <<>>
    /\ access = "svg"
    /\ currentSettings = NothingStored
    /\ storedSettings \in {NothingStored, installSettings} \cup SettingsSet
    /\ inbox = <<>>

\* Shiny.init(): the settings are loaded, the detector started, the listeners set
ShinyInit ==
    /\ starts = 0
    /\ currentSettings' = get(storedSettings)
    /\ SetDetState(start(DetState, attached))
    /\ starts' = 1
    /\ startLen' = Len(reports)
    /\ UNCHANGED <<attached, stops, firstSession, ops, failing>>
    /\ UNCHANGED <<dom, enhancedElements, access, subject, profile, hist, changes,
                   storedSettings, inbox>>

\* the background worker's onInstalled handler, here or on a synced device:
\* chrome.storage.sync.set({ settings: defaultSettings })
Install ==
    /\ changes < MaxChanges
    /\ storedSettings' = installSettings
    /\ inbox' = onChange(inbox, starts = 1, storedSettings, installSettings)
    /\ changes' = changes + 1
    /\ UNCHANGED <<dom, enhancedElements, currentSettings, access, subject, profile,
                   hist>>
    /\ UNCHANGED detVars

\* the popup, after a control of the form changed: saveSettings() writes the
\* eleven fields of the form, then notifyContentScript() sends the result of
\* ShinyStorage.get()
PopupSave(s) ==
    /\ changes < MaxChanges
    /\ s # get(storedSettings)
    /\ storedSettings' = s
    /\ inbox' = IF starts = 1
                THEN Append(onChange(inbox, TRUE, storedSettings, s), get(s))
                ELSE inbox
    /\ changes' = changes + 1
    /\ UNCHANGED <<dom, enhancedElements, currentSettings, access, subject, profile,
                   hist>>
    /\ UNCHANGED detVars

\* Shiny.onSettingsChanged(newSettings); on this page restoreAll and reenhanceAll
\* find nothing to work on
Receive ==
    /\ inbox # <<>>
    /\ currentSettings' = Head(inbox)
    /\ inbox' = Tail(inbox)
    /\ UNCHANGED <<dom, enhancedElements, access, subject, profile, hist, changes,
                   storedSettings>>
    /\ UNCHANGED detVars

StoreNext ==
    \/ ShinyInit
    \/ Install
    \/ \E s \in SettingsSet : PopupSave(s)
    \/ Receive

vars == <<detVars, enhVars>>

Next == DetNext

Init == DetInit /\ EnhIdle

Spec == Init /\ [][Next]_vars

SpecEnh == EnhInit /\ [][EnhNext]_vars

SpecOrch == OrchInit /\ [][OrchNext]_vars

SpecStore == StoreInit /\ [][StoreNext]_vars

(***************************************************************************)
(* The detector started with a callback that throws on some elements: the  *)
(* page inserts elements and the observers' callbacks run.                 *)
(***************************************************************************)
ThrowingInit ==
    /\ attached \in Documents
    /\ DetConstructed
    /\ failing \in (SUBSET SvgNodes) \ {{}}
    /\ EnhIdle

ThrowingNext ==
    \/ Start
    \/ \E n \in Nodes : Insert(n)
    \/ \E o \in BagToSet(obs) : Deliver(o)

SpecThrowing == ThrowingInit /\ [][ThrowingNext]_vars

(***************************************************************************)
(* The detector on a page that appends several elements before the         *)
(* observers' callbacks run: one batch may then hold more than one graphic.*)
(***************************************************************************)
BatchInit ==
    /\ attached \in {[d EXCEPT ![n] = b] : d \in Documents, n \in BatchOnly,
                                            b \in BOOLEAN}
    /\ DetConstructed
    /\ failing = {}
    /\ EnhIdle

BatchNext ==
    \/ Start
    \/ \E n \in Nodes : Insert(n)
    \/ \E o \in BagToSet(obs) : Deliver(o)

SpecBatch == BatchInit /\ [][BatchNext]_vars

(***************************************************************************)
(* Claims about the detector.                                              *)
(***************************************************************************)
Reported(n) == Cardinality({i \in 1..Len(reports) : reports[i].element = n})

ReportedSince(k) == {reports[i].element : i \in (k + 1)..Len(reports)}

Quiescent == \A o \in BagToSet(obs) : o.queue = <<>>

\* C1: onSVGDetected is called at most once per element, whichever of the
\* initial pass, the document watcher, a shadow watcher or a pending watch
\* finds it, and also when the element is removed and inserted again.
C1_AtMostOncePerNode == \A n \in Nodes : Reported(n) <= 1

\* C1 witness: the svg in the nested shadow tree, which only the initial pass
\* and a shadow watcher can find, was found a second time and is reported once.
C1_Witness == 5 \in rediscovered /\ Reported(5) = 1 /\ stops = 0

\* C2 as claimed: in the first session, once every queued mutation record is
\* delivered, every svg connected to the document has been reported exactly once.
C2_EveryInlineReportedOnce ==
    (starts = 1 /\ stops = 0 /\ Quiescent)
        => \A n \in SvgNodes : InDocument(attached, n) => Reported(n) = 1

\* C9 as claimed: once stop() has returned no MutationObserver is connected,
\* and no step taken while the detector stays stopped calls onSVGDetected.
C9_StopDisconnectsAll ==
    [][(observer = 0 /\ stops > 0)
          => /\ obs = EmptyBag
             /\ (observer' = 0 => reports' = reports)]_vars

C11_PendingWatchResolves ==
    Quiescent
        => \A o \in BagToSet(obs) :
              (o.kind = "lottie" /\ o.bare) => lottieSvg(attached, o.target) = 0

\* C21: when the document watcher or a shadow watcher handles an added element,
\* every element of the added subtree that hosts a shadow root, the added element
\* itself and a player included, has a shadow watcher on that root afterwards and
\* every inline graphic inside that root has been reported.
C21_AddedHostsWatched ==
    [][\A o \in BagToSet(obs) :
          (o.kind # "lottie" /\ Deliver(o))
             => \A n \in Range(o.queue) :
                   \A h \in ({n} \cup Desc(attached, n)) \cap HostNodes :
                      shadowRoot(attached, h) # 0
                         => /\ \E w \in BagToSet(obs') :
                                  w.kind = "shadow" /\ w.target = h
                            /\ \A g \in Desc(attached, -h) :
                                  TagOf[g] = "svg" => g \in detectedSVGs']_vars

\* C22: no shadow root ever has two connected shadow watchers, whether it was met
\* by the initial pass, by the handling of an added element, or again after
\* stop() and start().
C22_OneShadowWatcherPerRoot ==
    \A o, w \in BagToSet(obs) :
        (o.kind = "shadow" /\ w.kind = "shadow" /\ o.target = w.target)
            => o = w /\ CopiesIn(o, obs) = 1

\* the element is inside some shadow tree
RECURSIVE InShadowTree(_)
InShadowTree(n) ==
    IF n = Body THEN FALSE
    ELSE n \in ShadowChildren \/ InShadowTree(ParentOf[n])

\* the place of an element in the pass of start(): the light document first, the
\* shadow trees after it, each in document order
PassRank(n) == IF InShadowTree(n) THEN Len(ParentOf) + n ELSE n

\* everything below an element, shadow trees included
RECURSIVE Below(_, _)
Below(att, n) ==
    LET kids == Kids(att, n) \cup (IF shadowRoot(att, n) # 0 THEN Kids(att, -n) ELSE {})
    IN UNION {{c} \cup Below(att, c) : c \in kids}

\* the first added node of a batch that holds the element
BatchRank(att, queue, e) ==
    Min({k \in 1..Len(queue) : e \in {queue[k]} \cup Below(att, queue[k])}
        \cup {Len(queue) + 1})

\* C23: a start() appends the reports of its pass to the earlier reports in pass
\* order; a watcher's callback appends the reports of its batch in the order of
\* the batch's added nodes, an earlier node's graphics before a later node's.
C23_Ordering ==
    [][LET new == [i \in 1..(Len(reports') - Len(reports)) |->
                      reports'[Len(reports) + i].element]
       IN /\ Len(reports') >= Len(reports)
          /\ SubSeq(reports', 1, Len(reports)) = reports
          /\ starts' = starts + 1
               => \A i, j \in 1..Len(new) :
                     i < j => PassRank(new[i]) < PassRank(new[j])
          /\ \A o \in BagToSet(obs) :
                (o.kind # "lottie" /\ Deliver(o))
                   => \A i, j \in 1..Len(new) :
                         i < j => BatchRank(attached, o.queue, new[i])
                                     <= BatchRank(attached, o.queue, new[j])]_vars

C23_Witness ==
    /\ starts = 1
    /\ ops = 2
    /\ Quiescent
    /\ Len(reports) = 3
    /\ reports[1].element = 5
    /\ reports[2].element = 8
    /\ reports[3].element = 2

\* C17: when the callback throws on one graphic during the pass of start(), every
\* other graphic of the document not seen before is still reported by that pass
\* and the document watcher is installed.
C17_FailureIsolation ==
    [][starts' = starts + 1
          => /\ \A n \in SvgNodes \ (failing \cup detectedSVGs) :
                   InDocument(attached, n)
                      => \E i \in (Len(reports) + 1)..Len(reports') :
                            reports'[i].element = n
             /\ observer' = 1]_vars

(***************************************************************************)
(* Claims about the enhancer.                                              *)
(***************************************************************************)
\* what the page itself wrote, before any call
Dom0 == InitialDom(subject, profile)
Fresh == [dom |-> Dom0, store |-> [n \in ENodes |-> NoRecord]]

\* an attribute reads the same, an absent one and an empty one taken as alike
SameAttr(a, b) == OrEmpty(a) = OrEmpty(b)

ShinyClasses ==
    {"shiny-enhanced", "shiny-enhanced-img", "shiny-outlined", "shiny-highlightable",
     "shiny-focusable"}
Markers == {"shiny-enhanced", "shiny-enhanced-img"}

StrokeAsBefore(n) ==
    /\ SameAttr(dom[n].stroke, Dom0[n].stroke)
    /\ SameAttr(dom[n].strokeWidth, Dom0[n].strokeWidth)
    /\ SameAttr(dom[n].paintOrder, Dom0[n].paintOrder)

Untouched(n) ==
    /\ StrokeAsBefore(n)
    /\ SameAttr(dom[n].filter, Dom0[n].filter)
    /\ SameAttr(dom[n].tabindex, Dom0[n].tabindex)
    /\ dom[n].classes \cap ShinyClasses = {}

\* C3: for any graphic, enhance(g, s) with s enabled followed by restore of g's
\* primary node leaves every shape's stroke, stroke width and paint order, the
\* root's filter and every tab-stop attribute as they were before the enhance,
\* and no marker class remains.
C3_EnhanceRestoreRoundTrip ==
    (Len(hist) = 2 /\ hist[1] \in {"E", "e"} /\ hist[2] = "R" /\ changes = 0)
        => \A n \in ENodes : Untouched(n)

\* C4: a second enhance(g, s) with the same settings leaves every tracked attribute,
\* class and data-* attribute exactly as the first call left them.
C4_EnhanceTwiceIdempotent ==
    (Len(hist) = 1 /\ hist[1] \in {"E", "e"} /\ changes = 0)
        => \A s \in SettingsSet :
              (enhance(Fresh, Graphic(subject), s, access) = EnhState)
                  => enhance(EnhState, Graphic(subject), s, access).dom = dom

\* C5: after one or more enhance calls with outlines on and then one with outlines
\* off, no restore in between, every shape's stroke, stroke width and paint order
\* equal their values from before the first call and no shape is marked outlined.
C5_OutlineOffRestoresStroke ==
    (/\ subject = 1
     /\ Len(hist) >= 2
     /\ hist[Len(hist)] = "e"
     /\ \A i \in 1..(Len(hist) - 1) : hist[i] = "E")
        => \A n \in EShapes :
              StrokeAsBefore(n) /\ "shiny-outlined" \notin dom[n].classes

\* C6: enhance, restore, enhance, restore on the same graphic returns every shape's
\* stroke-related attributes to their original values.
C6_TwoRoundTrips ==
    (/\ subject = 1
     /\ Len(hist) = 4
     /\ hist[1] \in {"E", "e"} /\ hist[2] = "R"
     /\ hist[3] \in {"E", "e"} /\ hist[4] = "R")
        => \A n \in EShapes : StrokeAsBefore(n)

\* C7: after any sequence of enhance, restore and restoreAll calls, a node has a
\* record in enhancedElements exactly when it carries a marker class.
C7_RecordIffMarker ==
    \A n \in ENodes : enhancedElements[n].has <=> (dom[n].classes \cap Markers # {})

C7_Witness ==
    /\ hist = <<"E", "x", "E", "R">>
    /\ subject = 4
    /\ changes = 1
    /\ enhancedElements[19].has
    /\ ~enhancedElements[18].has

\* C8: after a settings change from enabled to disabled, no node of the light
\* document, of a shadow tree or of a reachable nested document keeps an
\* enhancement-written attribute, class or style, and enhancedElements is empty.
CleanPage ==
    \A n \in ENodes : Untouched(n) /\ ~enhancedElements[n].has

C8_DisableRestoresEverywhere ==
    [][(currentSettings.enabled /\ ~currentSettings'.enabled) => CleanPage']_vars

LastCall == IF hist = <<>> THEN "" ELSE hist[Len(hist)]

\* the filter-only expression the settings s call for
ContrastTerm(s) ==
    CASE s.contrastLevel = "medium" -> "contrast(1.3)"
      [] s.contrastLevel = "maximum" -> "contrast(2)"
      [] OTHER -> "contrast(1.6)"

ShadowTerm(s) ==
    "drop-shadow(0 0 " \o ToString(s.outlineWidth) \o "px " \o s.outlineColor \o ")"

FilterOnly(s) ==
    CASE s.contrastEnabled /\ s.outlineEnabled -> ContrastTerm(s) \o " " \o ShadowTerm(s)
      [] s.contrastEnabled /\ ~s.outlineEnabled -> ContrastTerm(s)
      [] ~s.contrastEnabled /\ s.outlineEnabled -> ShadowTerm(s)
      [] OTHER -> ""

\* C12: after any sequence of calls on an <img> graphic, when the last call was an
\* enhance with enabled settings the filter is exactly the contrast term of that
\* call's level iff contrastEnabled, followed by the drop-shadow term iff
\* outlineEnabled; the record holds the filter the page wrote, and without a record
\* (never enhanced, or restored) the filter is the one the page wrote.
C12_FilterOnlyExact ==
    subject = 3
        => /\ LastCall \in {"E", "e"}
                => /\ dom[17].filter = FilterOnly(currentSettings)
                   /\ enhancedElements[17].has
           /\ enhancedElements[17].has
                => enhancedElements[17].originalFilter = Dom0[17].filter
           /\ ~enhancedElements[17].has => dom[17].filter = Dom0[17].filter

C12_Witness ==
    /\ subject = 3
    /\ profile.filter = "blur(1px)"
    /\ hist = <<"E", "e">>
    /\ currentSettings.contrastLevel = "maximum"
    /\ dom[17].filter = "contrast(2)"

\* the contrast/saturation pair of a level
ContrastPair(s) ==
    CASE s.contrastLevel = "medium" -> "contrast(1.3) saturate(1.2)"
      [] s.contrastLevel = "maximum" -> "contrast(2.0) saturate(1.6)"
      [] OTHER -> "contrast(1.6) saturate(1.4)"

OnlyEnhanced == hist # <<>> /\ \A i \in 1..Len(hist) : hist[i] \in {"E", "e"}

\* C13: after one or more enhance calls with enabled settings on an inline root and
\* no restore in between, the root's filter is the filter the page wrote followed
\* by the contrast pair of the last call's level (the 'high' pair for an
\* unrecognized level) when that call had contrastEnabled, and exactly the filter
\* the page wrote when it had not.
C13_ContrastAfterOriginal ==
    (subject = 1 /\ OnlyEnhanced)
        => dom[11].filter =
              IF ~currentSettings.contrastEnabled THEN Dom0[11].filter
              ELSE IF Dom0[11].filter = "" THEN ContrastPair(currentSettings)
              ELSE Dom0[11].filter \o " " \o ContrastPair(currentSettings)

C13_Witness ==
    /\ subject = 1
    /\ profile.filter = "blur(1px)"
    /\ hist = <<"e", "E", "E">>
    /\ currentSettings.contrastLevel = "extreme"
    /\ dom[11].filter = "blur(1px) contrast(1.6) saturate(1.4)"

\* the inline treatment of settings s is on the root and its shape
InlineTreated(d, store, root, shape, s) ==
    /\ store[root].has
    /\ "shiny-enhanced" \in d[root].classes
    /\ s.outlineEnabled
         => /\ d[shape].stroke = s.outlineColor
            /\ d[shape].strokeWidth = ToString(s.outlineWidth)
            /\ "shiny-outlined" \in d[shape].classes
    /\ d[root].filter =
         IF ~s.contrastEnabled THEN store[root].originalFilter
         ELSE IF store[root].originalFilter = "" THEN ContrastPair(s)
         ELSE store[root].originalFilter \o " " \o ContrastPair(s)

\* the filter-only treatment of settings s is on the element
FilterTreated(d, store, el, s) ==
    /\ store[el].has
    /\ "shiny-enhanced-img" \in d[el].classes
    /\ d[el].filter = FilterOnly(s)

\* C14: an enhance with enabled settings on the <object> always runs to its end:
\* when the nested document and its svg root are reachable the inline treatment is
\* on the inner root and the <object> is left alone, and when the access throws
\* or finds no document or no svg root the filter-only treatment is on the
\* <object> and the nested document is left alone.
C14_EmbeddedPath ==
    [][(subject = 4 /\ hist' # hist /\ LastCall' \in {"E", "e"})
          => IF access = "svg"
             THEN /\ InlineTreated(dom', enhancedElements', 19, 20, currentSettings')
                  /\ dom'[18] = dom[18]
                  /\ enhancedElements'[18] = enhancedElements[18]
             ELSE /\ FilterTreated(dom', enhancedElements', 18, currentSettings')
                  /\ \A n \in {19, 20} :
                        dom'[n] = dom[n] /\ enhancedElements'[n] = enhancedElements[n]]_vars

C14_Witness ==
    /\ subject = 4
    /\ access = "throws"
    /\ changes = 1
    /\ hist = <<"E", "E">>
    /\ InlineTreated(dom, enhancedElements, 19, 20, currentSettings)
    /\ FilterTreated(dom, enhancedElements, 18, currentSettings)

\* C15: an enhance with disabled settings, coming after enhance calls with enabled
\* settings on the same graphic, removes what those calls applied for the graphic
\* and deletes its record, as restore of the graphic's primary node does.
C15_DisabledEnhanceRemoves ==
    [][(/\ hist' = Append(hist, "x")
        /\ currentSettings.enabled /\ ~currentSettings'.enabled
        /\ OnlyEnhanced)
          => /\ EnhState' = restore(EnhState, TargetElement(subject))
             /\ CleanPage']_vars

\* C16: restore of a node that has no record, never enhanced or already restored,
\* leaves every node's attributes, classes and styles and the record store as
\* they were.
C16_RestoreWithoutRecord ==
    [][(hist' = Append(hist, "R") /\ ~enhancedElements[TargetElement(subject)].has)
          => dom' = dom /\ enhancedElements' = enhancedElements]_vars

C16_Witness ==
    /\ hist = <<"E", "R", "R">>
    /\ profile.filter = "blur(1px)"
    /\ ~enhancedElements[TargetElement(subject)].has
    /\ dom[TargetElement(subject)].filter = "blur(1px)"

\* C18: every snapshot the orchestrator holds once init() has run, loaded or
\* received from the change subscription or a popup message, has every field of
\* the built-in defaults.
C18_SnapshotComplete ==
    starts = 1 => DOMAIN defaultSettings \subseteq DOMAIN currentSettings

\* the treatment of settings s is on graphic g
Treated(d, store, g, acc, s) ==
    CASE g = 1 -> InlineTreated(d, store, 11, 12, s)
      [] g = 2 -> InlineTreated(d, store, 15, 16, s)
      [] g = 3 -> FilterTreated(d, store, 17, s)
      [] OTHER -> IF acc = "svg" THEN InlineTreated(d, store, 19, 20, s)
                  ELSE FilterTreated(d, store, 18, s)

\* C19: however detections and settings changes interleave, the detection of a
\* graphic leaves on it the treatment of the snapshot received last when that
\* snapshot is enabled, and leaves the page and the records as they were when it
\* is disabled.
C19_DetectUsesCurrentSettings ==
    [][\A g \in Graphics :
          (Graphic(g).element \in detectedSVGs' \ detectedSVGs)
             => IF currentSettings.enabled
                THEN Treated(dom', enhancedElements', g, access, currentSettings)
                ELSE dom' = dom /\ enhancedElements' = enhancedElements]_vars

C19_Witness ==
    /\ changes = 1
    /\ currentSettings.enabled
    /\ currentSettings.contrastLevel = "medium"
    /\ 15 \in detectedSVGs /\ ~enhancedElements[15].has
    /\ 17 \in detectedSVGs /\ FilterTreated(dom, enhancedElements, 17, currentSettings)

OnlyOutlined == hist # <<>> /\ \A i \in 1..Len(hist) : hist[i] = "E"

\* C20: across enhance calls with outlines on and no restore in between, the
\* saved original stroke, stroke width and paint order of each outlined shape are
\* the shape's values from before the first call (the empty string standing for an
\* absent attribute), and the shape is at most once in the root's modifiedShapes.
C20_OutlineCapturedOnce ==
    (subject = 1 /\ OnlyOutlined)
        => /\ dom[12].origStroke = OrEmpty(Dom0[12].stroke)
           /\ dom[12].origStrokeWidth = OrEmpty(Dom0[12].strokeWidth)
           /\ dom[12].origPaintOrder = OrEmpty(Dom0[12].paintOrder)
           /\ Count(enhancedElements[11].modifiedShapes, 12) <= 1

(***************************************************************************)
(* The focus layer on the inline graphic (subject 1, root 11).             *)
(***************************************************************************)
\* what the page wrote on element n: an anchor, a tab index other than -1, an
\* onclick attribute, or the role button or link
PageFocusable(n) ==
    \/ Dom0[n].tag = "a"
    \/ (Dom0[n].tabindex # Null /\ Dom0[n].tabindex # "-1")
    \/ Dom0[n].onclick
    \/ Dom0[n].role \in {"button", "link"}

FocusOn == LastCall \in {"E", "e"} /\ currentSettings.focusIndicators
FocusOff == \/ LastCall \in {"E", "e"} /\ ~currentSettings.focusIndicators
            \/ LastCall = "R"

\* C24 as stated: after an enhance with the focus layer on, every marked
\* focusable element that carries no tab index of the page's own has been given
\* one and is flagged as synthetic.
C24_EveryMarkedGetsTabindex ==
    (subject = 1 /\ FocusOn)
        => \A n \in Within(11) :
              ("shiny-focusable" \in dom[n].classes /\ Dom0[n].tabindex = Null)
                 => dom[n].tabindex # Null /\ Truthy(dom[n].addedTabindex)

\* C24 amended: with the focus layer on, exactly the page's focusable elements
\* are marked, and a marked element gets the synthetic tab index 0 and the flag
\* only if it has no tab index and has an onclick attribute or a role; with the
\* layer off or after restore no element is marked or flagged and every tab index
\* is the page's; in every state a tab index the page wrote is unchanged.
C24_FocusLayer ==
    subject = 1 =>
        \A n \in Within(11) :
            /\ FocusOn =>
                  /\ "shiny-focusable" \in dom[n].classes <=> PageFocusable(n)
                  /\ IF /\ PageFocusable(n)
                        /\ Dom0[n].tabindex = Null
                        /\ (Dom0[n].onclick \/ Truthy(Dom0[n].role))
                     THEN dom[n].tabindex = "0" /\ dom[n].addedTabindex = "true"
                     ELSE /\ dom[n].tabindex = Dom0[n].tabindex
                          /\ dom[n].addedTabindex = Null
            /\ FocusOff =>
                  /\ "shiny-focusable" \notin dom[n].classes
                  /\ dom[n].tabindex = Dom0[n].tabindex
                  /\ dom[n].addedTabindex = Null
            /\ Dom0[n].tabindex # Null => dom[n].tabindex = Dom0[n].tabindex
            /\ Truthy(dom[n].addedTabindex) => Dom0[n].tabindex = Null

\* a plain anchor is marked and keeps having no tab index
C24_Witness ==
    /\ subject = 1
    /\ FocusOn
    /\ \E n \in Within(11) :
          /\ Dom0[n].tag = "a"
          /\ "shiny-focusable" \in dom[n].classes
          /\ dom[n].tabindex = Null

\* an element with a tab index of the page's own and one with a synthetic tab
\* index have both gone through marking and unmarking
C24_WitnessOff ==
    /\ subject = 1
    /\ Len(hist) >= 2
    /\ hist[Len(hist) - 1] = "E"
    /\ FocusOff
    /\ \E n \in Within(11) : Dom0[n].tabindex = "0" /\ dom[n].tabindex = "0"

(***************************************************************************)
(* The deep walker, on every tree the detector's document goes through.    *)
(***************************************************************************)
\* the node one link up: the parent of an element of a light tree, the shadow root
\* holding an element of a shadow tree, the host of a shadow root
LinkUp(x) ==
    IF x < 0 THEN -x
    ELSE IF x \in ShadowChildren THEN -ParentOf[x] ELSE ParentOf[x]

\* x hangs below r through attached light and shadow links: x is an element of
\* r's own tree, or a shadow root attached to such an element, or hangs below one
\* of these.  The shadow root of r itself, when r is a host element, is attached
\* at r and not below it.
RECURSIVE ReachableFrom(_, _, _)
ReachableFrom(att, r, x) ==
    IF x = Body \/ ~att[x] THEN FALSE
    ELSE (x > 0 /\ LinkUp(x) = r) \/ ReachableFrom(att, r, LinkUp(x))

NoRepeats(s) == \A i, j \in 1..Len(s) : s[i] = s[j] => i = j

WalkRoots == {Body} \cup Nodes \cup ShadowRoots

\* C25: from every root, querySelectorAllDeep returns exactly the matching
\* elements of the root's light tree and of every shadow tree attached below it
\* (to a descendant, at any depth), each once; traverseShadowRoots hands over each shadow root attached below the
\* root exactly once, a shadow root before every shadow root nested inside it.
C25_DeepWalk ==
    \A r \in WalkRoots :
        /\ \A sel \in {"svg", "player", "*"} :
              LET found == querySelectorAllDeep(attached, sel, r)
              IN /\ Range(found) = {n \in Nodes : Matches(n, sel)
                                                 /\ ReachableFrom(attached, r, n)}
                 /\ NoRepeats(found)
        /\ LET visits == traverseShadowRoots(attached, r)
           IN /\ Range(visits) = {sr \in ShadowRoots : ReachableFrom(attached, r, sr)}
              /\ NoRepeats(visits)
              /\ \A i, j \in 1..Len(visits) :
                    ReachableFrom(attached, visits[i], visits[j]) => i < j

\* start() has walked a document with a shadow root nested in a shadow root and
\* has reported the graphic inside the inner one
C25_Witness ==
    /\ starts > 0
    /\ ReachableFrom(attached, Body, -3)
    /\ ReachableFrom(attached, -3, -4)
    /\ ReachableFrom(attached, -4, 5)
    /\ traverseShadowRoots(attached, Body)[1] = -3
    /\ 5 \in detectedSVGs

\* C26: an enabled enhance with the outline layer off, on a root whose previous
\* call was an enhance with the layer on, puts the saved stroke, stroke width and
\* paint order back on every shape of the root's modified-shape list and leaves
\* that list empty.
C26_DisableEmptiesShapeList ==
    (subject = 1 /\ Len(hist) >= 2 /\ hist[Len(hist) - 1] = "E" /\ LastCall = "e")
        => /\ \A n \in Range(enhancedElements[11].modifiedShapes) :
                 /\ SameAttr(dom[n].stroke, dom[n].origStroke)
                 /\ SameAttr(dom[n].strokeWidth, dom[n].origStrokeWidth)
                 /\ SameAttr(dom[n].paintOrder, dom[n].origPaintOrder)
                 /\ "shiny-outlined" \notin dom[n].classes
           /\ enhancedElements[11].modifiedShapes = <<>>

\* C27: a settings change to an enabled snapshot leaves the treatment of the new
\* snapshot on every graphic the detector has reported so far, in the light
\* document and in shadow trees alike, whether or not it was enhanced before.
C27_ChangeReachesEveryGraphic ==
    [][(changes' = changes + 1 /\ currentSettings'.enabled)
          => \A g \in Graphics :
                Graphic(g).element \in detectedSVGs
                   => Treated(dom', enhancedElements', g, access, currentSettings')]_vars

\* the filter-only treatment is on the <object>: it has a record or the marker
FilterOnlyCarried == enhancedElements[18].has \/ "shiny-enhanced-img" \in dom[18].classes

\* the inline treatment is on the root of the nested document
InlineCarried == enhancedElements[19].has \/ "shiny-enhanced" \in dom[19].classes

\* C28: across enhance calls on the <object>, with its nested document reachable
\* at some calls and unreachable at others, the graphic never carries the
\* filter-only treatment on the <object> and the inline treatment on the nested
\* root at the same time.
C28_OneTreatmentAtATime ==
    subject = 4 => ~(FilterOnlyCarried /\ InlineCarried)

====
